---- MODULE Spec2Model ----
(***************************************************************************)
(* The test Accumulator of telegraf (testutil/accumulator.go): ingestion   *)
(* of measurements and errors under the main mutex, the condition-variable *)
(* waiters Wait/WaitError, and delivery tracking through the bounded       *)
(* notification channel.                                                   *)
(***************************************************************************)
EXTENDS Integers, Sequences, FiniteSets, TLC

(* ------------------------------ bounds -------------------------------- *)
\* Add*/AddMetric calls per behaviour
MaxAdds == 3
\* stored measurements per behaviour (further submissions are dropped ones)
MaxStored == 2
\* ClearMetrics calls per behaviour
MaxClears == 1
\* Add*/AddMetric calls per behaviour while threads wait
MaxWaitAdds == 3
\* recorded errors per behaviour
MaxErrors == 2
\* largest n passed to Wait / WaitError
MaxWaitN == 2
\* tracking obligations (tracked metrics and groups) per behaviour
MaxObligations == 2

(* ------------------------------ values -------------------------------- *)
Threads == {"t1", "t2", "t3"}
NoThread == "none"

\* telegraf.ValueType
Untyped == "Untyped"
Counter == "Counter"
Gauge == "Gauge"
Summary == "Summary"
Histogram == "Histogram"
ValueTypes == {Untyped, Counter, Gauge, Summary, Histogram}

\* A Go map is the set of its <<key, value>> pairs (keys unique).
NoMap == {}
\* the arguments of an Add* call; timestamp is the variadic
\* timestamp ...time.Time: no argument, or one
Submissions ==
    {[measurement |-> "cpu", tags |-> NoMap,
      fields |-> {<<"time_idle", 42>>}, timestamp |-> <<7>>],
     [measurement |-> "mem", tags |-> {<<"host", "a">>},
      fields |-> {<<"used", 1>>}, timestamp |-> <<>>],
     [measurement |-> "cpu", tags |-> {<<"host", "a">>},
      fields |-> NoMap, timestamp |-> <<7>>]}
\* the values time.Now() may return
WallTimes == {1}
\* Accumulator.TimeFunc, modelled by the set of times it may return: nil
\* (no function), or a clock fixed at one time
NilFunc == {}
FixedClocks == {{3}}

\* error values; Nil is the nil error
Nil == "nil"
ErrValues == {"e1", "e2"}

(* ------------------------------- state -------------------------------- *)
VARIABLES
    nMetrics,     \* Accumulator.nMetrics (atomic uint64)
    Metrics,      \* Accumulator.Metrics  []*Metric
    accumulated,  \* Accumulator.accumulated []telegraf.Metric
    Discard,      \* Accumulator.Discard
    Errors,       \* Accumulator.Errors
    TimeFunc,     \* Accumulator.TimeFunc
    Cond,         \* Accumulator.Cond: FALSE = nil, TRUE = created
    mutex,        \* holder of Accumulator.Mutex, or NoThread
    trackingMutex, \* holder of Accumulator.trackingMutex, or NoThread
    deliverChan,  \* Accumulator.deliverChan
    delivered,    \* Accumulator.delivered
    obligations,  \* the tracking data of package metric, by TrackingID
    acked,        \* consumers: the members they have completed
    heap,         \* the tag map and the field map each caller owns
    mav,          \* the Mavlink input plugin and its reader goroutine
    pmu,          \* a call of intel_pmu readCoreEvents and its tasks
    pc,           \* position of each thread
    local,        \* locals of each thread's current call
    hist          \* history: counts of completed calls

vars == <<nMetrics, Metrics, accumulated, Discard, Errors, TimeFunc, Cond,
          mutex, trackingMutex, deliverChan, delivered, obligations, acked,
          heap, mav, pmu, pc, local, hist>>

\* what the code of the Accumulator only reads: the fields set when it is
\* built, the maps of its callers, and the state of the input plugins
config == <<Discard, TimeFunc, heap, mav, pmu>>

\* delivery tracking
tracking == <<trackingMutex, deliverChan, delivered, obligations, acked>>

\* a nil channel; a channel made with capacity cap holds buf
NilChan == [made |-> FALSE, cap |-> 0, buf |-> <<>>]

\* telegraf.DeliveryInfo
NoInfo == [id |-> 0, delivered |-> FALSE, accepted |-> 0]

\* a metric that is not tracked; a tracked one is member k of obligation
\* id, <<id, k>>
NoTrack == <<>>

\* the Accumulator's fields guarded by the main mutex
store == <<nMetrics, Metrics, accumulated, Errors>>

\* no argument: a submission with nothing in it
NoArg == [fields |-> NoMap]
NoLocal ==
    [n |-> 0, err |-> Nil, arg |-> NoArg, todo |-> <<>>, info |-> NoInfo,
     id |-> 0, metrics |-> <<>>, res |-> <<>>]

(* ----------------------------- map objects --------------------------- *)
\* the maps of a caller that has filled none
NoMaps == [tags |-> NoMap, fields |-> NoMap]

\* a reference to a map: to one the Accumulator made, which holds kv, or
\* to the map a caller owns
Own(kv) == [at |-> NoThread, kv |-> kv]
Alias(t) == [at |-> t, kv |-> NoMap]

\* p.Tags and p.Fields of a stored *Metric: the entries of the map behind
\* the reference
TagsOf(m) == IF m.Tags.at = NoThread THEN m.Tags.kv ELSE heap[m.Tags.at].tags
FieldsOf(m) ==
    IF m.Fields.at = NoThread THEN m.Fields.kv ELSE heap[m.Fields.at].fields

(* ----------------------- conversions (metric.go) ---------------------- *)
\* testutil.FromTestMetric: a telegraf.Metric built from a *Metric
FromTestMetric(m) ==
    [name |-> m.Measurement, tags |-> TagsOf(m), fields |-> FieldsOf(m),
     tm |-> m.Time, tp |-> m.Type, track |-> NoTrack]

\* testutil.ToTestMetric: a *Metric built from a telegraf.Metric, tags and
\* fields copied pair by pair from its tag and field lists
ToTestMetric(tm) ==
    [Measurement |-> tm.name,
     Tags |-> Own({kv \in tm.tags : TRUE}),
     Fields |-> Own({kv \in tm.fields : TRUE}),
     Time |-> tm.tm,
     Type |-> tm.tp]

(* ------------------------- condition variable ------------------------- *)
\* threads parked in Cond.Wait are those at a "sleep" position
Sleeping == {"Wait.sleep", "WaitError.sleep"}
Woken(p) == IF p = "Wait.sleep" THEN "Wait.woken" ELSE "WaitError.woken"

\* a.Cond.Broadcast(): every parked thread becomes runnable
Broadcast(p) ==
    [u \in Threads |-> IF p[u] \in Sleeping THEN Woken(p[u]) ELSE p[u]]

\* mutant: Signal in place of Broadcast, one parked thread is woken
CondSignal(p) ==
    IF Cond /\ \E u \in Threads : p[u] \in Sleeping
    THEN LET w == CHOOSE u \in Threads : p[u] \in Sleeping
         IN [p EXCEPT ![w] = Woken(p[w])]
    ELSE p

\* if a.Cond != nil { a.Cond.Broadcast() }
CondBroadcast(p) == IF Cond THEN Broadcast(p) ELSE p

(* ------------------------------ readers ------------------------------- *)
\* NMetrics: atomic load of the counter
NMetrics == nMetrics

\* the zero value of a slice element
ZeroMetric ==
    [name |-> "", tags |-> NoMap, fields |-> NoMap, tm |-> 0, tp |-> Untyped,
     track |-> NoTrack]

\* mutant: make([]telegraf.Metric, len(a.accumulated)) in place of
\* make([]telegraf.Metric, 0, len(a.accumulated)): the entries are appended
\* after len zero values
GetTelegrafMetrics_makeLen ==
    [i \in 1..Len(accumulated) |-> ZeroMetric] \o accumulated

\* GetTelegrafMetrics: a fresh slice holding the entries of accumulated
GetTelegrafMetrics == [i \in 1..Len(accumulated) |-> accumulated[i]]

(* ------------------------------ ingestion ----------------------------- *)
AddPcs == {"AddFields", "AddCounter", "AddGauge", "AddSummary",
           "AddHistogram", "AddMetric"}

InCall(ps) == Cardinality({u \in Threads : pc[u] \in ps})

\* a.Lock(): the caller blocks until the mutex is free, and goes on at op
Acquire(t, op) ==
    /\ mutex = NoThread
    /\ mutex' = t
    /\ pc' = [pc EXCEPT ![t] = op]

\* a.Lock() at the head of a locked operation
Lock(t, op) ==
    /\ pc[t] = "idle"
    /\ Acquire(t, op)

\* where a thread goes on after AddMetric: in the loop of
\* AddTrackingMetricGroup while members are left, else the call is over
After(t) ==
    IF local[t].todo # <<>> THEN "AddTrackingMetricGroup" ELSE "idle"

\* mutant: TimeFunc is not consulted, a measurement without timestamp gets
\* time.Now()
TimesOf_now(timestamp) ==
    IF Len(timestamp) > 0 THEN {timestamp[1]} ELSE WallTimes

\* the timestamps a measurement may get: timestamp[0], else time.Now()
\* when TimeFunc is nil, else TimeFunc()
TimesOf(timestamp) ==
    IF Len(timestamp) > 0 THEN {timestamp[1]}
    ELSE IF TimeFunc = NilFunc THEN WallTimes
    ELSE TimeFunc

\* mutant: the len(fields) == 0 return is left out
addMeasurement_noFieldCheck(t, measurement, tags, fields, tp, timestamp) ==
    /\ nMetrics' = nMetrics + 1
    /\ pc' = [CondBroadcast(pc) EXCEPT ![t] = "idle"]
    /\ mutex' = NoThread
    /\ IF Discard
       THEN UNCHANGED <<Metrics, accumulated>>
       ELSE \E tm \in TimesOf(timestamp) :
            LET m == [Measurement |-> measurement, Fields |-> Own(fields),
                      Tags |-> Own(tags), Time |-> tm, Type |-> tp]
            IN /\ Metrics' = Append(Metrics, m)
               /\ accumulated' = Append(accumulated, FromTestMetric(m))

\* mutant: the Discard check comes first, before the counter and the
\* broadcast
addMeasurement_discardFirst(t, measurement, tags, fields, tp, timestamp) ==
    /\ pc' = [(IF Discard THEN pc ELSE CondBroadcast(pc)) EXCEPT ![t] = "idle"]
    /\ mutex' = NoThread
    /\ nMetrics' = IF Discard THEN nMetrics ELSE nMetrics + 1
    /\ IF Discard \/ Cardinality(fields) = 0
       THEN UNCHANGED <<Metrics, accumulated>>
       ELSE \E tm \in TimesOf(timestamp) :
            LET m == [Measurement |-> measurement, Fields |-> Own(fields),
                      Tags |-> Own(tags), Time |-> tm, Type |-> tp]
            IN /\ Metrics' = Append(Metrics, m)
               /\ accumulated' = Append(accumulated, FromTestMetric(m))

\* mutant: the counter is stored, not added to
addMeasurement_store(t, measurement, tags, fields, tp, timestamp) ==
    /\ nMetrics' = 1
    /\ pc' = [CondBroadcast(pc) EXCEPT ![t] = "idle"]
    /\ mutex' = NoThread
    /\ IF Discard \/ Cardinality(fields) = 0
       THEN UNCHANGED <<Metrics, accumulated>>
       ELSE \E tm \in TimesOf(timestamp) :
            LET m == [Measurement |-> measurement, Fields |-> Own(fields),
                      Tags |-> Own(tags), Time |-> tm, Type |-> tp]
            IN /\ Metrics' = Append(Metrics, m)
               /\ accumulated' = Append(accumulated, FromTestMetric(m))

\* mutant: the measurement is put in front of the stored ones
addMeasurement_prepend(t, measurement, tags, fields, tp, timestamp) ==
    /\ nMetrics' = nMetrics + 1
    /\ pc' = [CondBroadcast(pc) EXCEPT ![t] = "idle"]
    /\ mutex' = NoThread
    /\ IF Discard \/ Cardinality(fields) = 0
       THEN UNCHANGED <<Metrics, accumulated>>
       ELSE \E tm \in TimesOf(timestamp) :
            LET m == [Measurement |-> measurement, Fields |-> Own(fields),
                      Tags |-> Own(tags), Time |-> tm, Type |-> tp]
            IN /\ Metrics' = <<m>> \o Metrics
               /\ accumulated' = <<FromTestMetric(m)>> \o accumulated

\* mutant: the caller's maps are stored as they come, not copied
addMeasurement_noCopy(t, measurement, tags, fields, tp, timestamp) ==
    /\ nMetrics' = nMetrics + 1
    /\ pc' = [CondBroadcast(pc) EXCEPT ![t] = "idle"]
    /\ mutex' = NoThread
    /\ IF Discard \/ Cardinality(fields) = 0
       THEN UNCHANGED <<Metrics, accumulated>>
       ELSE \E tm \in TimesOf(timestamp) :
            LET m == [Measurement |-> measurement, Fields |-> Alias(t),
                      Tags |-> Alias(t), Time |-> tm, Type |-> tp]
            IN /\ Metrics' = Append(Metrics, m)
               /\ accumulated' = Append(accumulated, FromTestMetric(m))

\* addMeasurement, from after a.Lock() to the deferred a.Unlock()
addMeasurement(t, measurement, tags, fields, tp, timestamp) ==
    /\ nMetrics' = nMetrics + 1
    /\ pc' = [CondBroadcast(pc) EXCEPT ![t] = "idle"]
    /\ mutex' = NoThread
    /\ IF Discard \/ Cardinality(fields) = 0
       THEN UNCHANGED <<Metrics, accumulated>>
       ELSE \E tm \in TimesOf(timestamp) :
            LET tagsCopy == Own({kv \in tags : TRUE})
                fieldsCopy == Own({kv \in fields : TRUE})
                m == [Measurement |-> measurement, Fields |-> fieldsCopy,
                      Tags |-> tagsCopy, Time |-> tm, Type |-> tp]
            IN /\ Metrics' = Append(Metrics, m)
               /\ accumulated' = Append(accumulated, FromTestMetric(m))

\* mutant: AddMetric counts after the Discard and empty-fields returns
AddMetricBody_countStored(t, m) ==
    /\ pc' = [CondBroadcast(pc) EXCEPT ![t] = After(t)]
    /\ mutex' = NoThread
    /\ IF Discard \/ Cardinality(m.fields) = 0
       THEN UNCHANGED <<nMetrics, Metrics, accumulated>>
       ELSE /\ nMetrics' = nMetrics + 1
            /\ Metrics' = Append(Metrics, ToTestMetric(m))
            /\ accumulated' = Append(accumulated, m)

\* mutant: AddMetric drops on Discard only, a metric without fields is
\* stored
AddMetricBody_storeEmpty(t, m) ==
    /\ nMetrics' = nMetrics + 1
    /\ pc' = [CondBroadcast(pc) EXCEPT ![t] = After(t)]
    /\ mutex' = NoThread
    /\ IF Discard
       THEN UNCHANGED <<Metrics, accumulated>>
       ELSE /\ Metrics' = Append(Metrics, ToTestMetric(m))
            /\ accumulated' = Append(accumulated, m)

\* AddMetric, from after a.Lock() to the deferred a.Unlock()
AddMetricBody(t, m) ==
    /\ nMetrics' = nMetrics + 1
    /\ pc' = [CondBroadcast(pc) EXCEPT ![t] = After(t)]
    /\ mutex' = NoThread
    /\ IF Discard \/ Cardinality(m.fields) = 0
       THEN UNCHANGED <<Metrics, accumulated>>
       ELSE /\ Metrics' = Append(Metrics, ToTestMetric(m))
            /\ accumulated' = Append(accumulated, m)

\* the measurements a caller may submit: once MaxStored are stored, only
\* submissions that are dropped
MayStore == Discard \/ Len(Metrics) < MaxStored
AddArgs(subs) == {s \in subs : MayStore \/ s.fields = NoMap}

\* the telegraf.Metric values handed to AddMetric
MetricOf(s) ==
    [name |-> s.measurement, tags |-> s.tags, fields |-> s.fields,
     tm |-> 7, tp |-> Gauge, track |-> NoTrack]

ArgOf(op, s) == IF op = "AddMetric" THEN MetricOf(s) ELSE s

\* the contents a caller may give its maps
CallerMaps ==
    {[tags |-> tg, fields |-> fl] :
        tg \in {NoMap, {<<"host", "a">>}, {<<"host", "b">>}},
        fl \in {NoMap, {<<"time_idle", 42>>},
                {<<"time_idle", 43>>, <<"used", 1>>}}}

\* a caller, between its calls, adds, removes or changes entries of the
\* maps it owns
MutateMaps(t) ==
    /\ pc[t] = "idle"
    /\ \E m \in CallerMaps \ {heap[t]} : heap' = [heap EXCEPT ![t] = m]
    /\ UNCHANGED <<store, Discard, TimeFunc, mav, pmu, tracking, Cond, mutex,
                   pc, local, hist>>

\* the submission a caller makes with the maps it owns
OwnSubmission(t) ==
    [measurement |-> "cpu", tags |-> heap[t].tags, fields |-> heap[t].fields,
     timestamp |-> <<7>>]

\* a call of the Add* family starts, one of ops with arguments from subs,
\* and takes the mutex
AddLock(t, ops, subs, max) ==
    /\ hist.adds + InCall(AddPcs) < max
    /\ \E op \in ops, s \in AddArgs(subs) :
          /\ Lock(t, op)
          /\ local' = [local EXCEPT ![t].arg = ArgOf(op, s)]
    /\ UNCHANGED <<store, config, tracking, Cond, hist>>

Added == [hist EXCEPT !.adds = @ + 1, !.kept = @ \/ ~Discard]

AddTyped(t, op, tp) ==
    /\ pc[t] = op
    /\ LET s == local[t].arg
       IN addMeasurement(t, s.measurement, s.tags, s.fields, tp, s.timestamp)
    /\ hist' = Added
    /\ local' = [local EXCEPT ![t] = NoLocal]
    /\ UNCHANGED <<config, tracking, Errors, Cond>>

AddFields(t) == AddTyped(t, "AddFields", Untyped)

\* mutant: AddCounter passes telegraf.Untyped
AddCounter_untyped(t) == AddTyped(t, "AddCounter", Untyped)

AddCounter(t) == AddTyped(t, "AddCounter", Counter)

AddGauge(t) == AddTyped(t, "AddGauge", Gauge)

AddSummary(t) == AddTyped(t, "AddSummary", Summary)

AddHistogram(t) == AddTyped(t, "AddHistogram", Histogram)

\* the AddMetric of t is the last step of a tracking call, which returns
\* its id when AddMetric has returned
Returns(t) == local[t].arg.track # NoTrack /\ local[t].todo = <<>>

\* return id: the id and the number of metrics the call wrapped
Returned(t) == [id |-> local[t].id, members |-> local[t].arg.track[2]]

AddMetric(t) ==
    /\ pc[t] = "AddMetric"
    /\ AddMetricBody(t, local[t].arg)
    /\ hist' = IF Returns(t)
               THEN [Added EXCEPT !.returned = Append(@, Returned(t))]
               ELSE Added
    /\ local' = [local EXCEPT ![t].arg = NoArg,
                              ![t].id = IF Returns(t) THEN 0 ELSE @]
    /\ UNCHANGED <<config, tracking, Errors, Cond>>

\* a call of GetTelegrafMetrics starts and takes the mutex
GetTelegrafMetricsLock(t) ==
    /\ Lock(t, "GetTelegrafMetrics")
    /\ UNCHANGED <<store, config, tracking, Cond, local, hist>>

\* GetTelegrafMetrics from after a.Lock() to the deferred a.Unlock(): the
\* caller gets the slice metrics
GetTelegrafMetricsCall(t) ==
    /\ pc[t] = "GetTelegrafMetrics"
    /\ local' = [local EXCEPT ![t].metrics = GetTelegrafMetrics]
    /\ mutex' = NoThread
    /\ pc' = [pc EXCEPT ![t] = "idle"]
    /\ UNCHANGED <<store, config, tracking, Cond, hist>>

\* FirstError: the first recorded error, nil when there is none
FirstError == IF Len(Errors) = 0 THEN Nil ELSE Errors[1]

(* -------------------------- by-name lookups --------------------------- *)
\* the measurement names and tag keys a lookup may ask for
LookupArgs ==
    {[measurement |-> n, key |-> k, fields |-> NoMap] :
        n \in {"cpu", "mem"}, k \in {"host"}}

\* for _, p := range a.Metrics { if p.Measurement == measurement {..} }:
\* the indexes of the stored metrics with that name, 0 when there is none
Named(measurement) ==
    {i \in 1..Len(Metrics) : Metrics[i].Measurement = measurement}
First(is) == IF is = {} THEN 0 ELSE CHOOSE i \in is : \A j \in is : i <= j

\* v, ok := p.Tags[key]
HasKey(m, key) == \E kv \in TagsOf(m) : kv[1] = key
ValueAt(m, key) == (CHOOSE kv \in TagsOf(m) : kv[1] = key)[2]

\* Get: the first stored metric with that name and true, or nil and false
Get(measurement) ==
    LET i == First(Named(measurement))
    IN IF i = 0 THEN <<Nil, FALSE>> ELSE <<Metrics[i], TRUE>>

\* HasTag: whether the first stored metric with that name has the tag
HasTag(measurement, key) ==
    LET i == First(Named(measurement))
    IN IF i = 0 THEN FALSE ELSE HasKey(Metrics[i], key)

\* TagSetValue: the tag's value in the first stored metric with that name
\* that has the tag, "" when none has
TagSetValue(measurement, key) ==
    LET i == First({j \in Named(measurement) : HasKey(Metrics[j], key)})
    IN IF i = 0 THEN "" ELSE ValueAt(Metrics[i], key)

\* TagValue: the tag's value in the first stored metric with that name, ""
\* when it has not the tag or no metric has the name
TagValue(measurement, key) ==
    LET i == First(Named(measurement))
    IN IF i = 0 \/ ~HasKey(Metrics[i], key)
       THEN ""
       ELSE ValueAt(Metrics[i], key)

\* NFields: the number of fields of all stored metrics
RECURSIVE CountFields(_)
CountFields(ms) ==
    IF ms = <<>>
    THEN 0
    ELSE Cardinality(FieldsOf(Head(ms))) + CountFields(Tail(ms))
NFields == CountFields(Metrics)

\* the methods that read a.Metrics or a.Errors without a.Lock()
LookupPcs == {"Get", "HasTag", "TagSetValue", "TagValue"}
UnlockedPcs == LookupPcs \cup {"FirstError", "GatherError"}

\* what the read of an unlocked method at op yields
ReadOf(op, arg) ==
    CASE op = "Get" -> Get(arg.measurement)
      [] op = "HasTag" -> <<HasTag(arg.measurement, arg.key)>>
      [] op = "TagSetValue" -> <<TagSetValue(arg.measurement, arg.key)>>
      [] op = "TagValue" -> <<TagValue(arg.measurement, arg.key)>>
      [] OTHER -> <<FirstError>>

\* a caller enters Get, HasTag, TagSetValue or TagValue: the method takes
\* no lock before it ranges over a.Metrics
LookupCall(t) ==
    /\ pc[t] = "idle"
    /\ \E op \in LookupPcs, arg \in LookupArgs :
          /\ pc' = [pc EXCEPT ![t] = op]
          /\ local' = [local EXCEPT ![t].arg = arg]
    /\ UNCHANGED <<store, config, tracking, Cond, mutex, hist>>

\* a caller enters FirstError: no lock before len(a.Errors)
FirstErrorCall(t) ==
    /\ pc[t] = "idle"
    /\ pc' = [pc EXCEPT ![t] = "FirstError"]
    /\ UNCHANGED <<store, config, tracking, Cond, mutex, local, hist>>

\* GatherError: gf(a) has returned err; a non-nil err is returned at once,
\* else the method goes on to read a.Errors, with no lock
GatherErrorCall(t) ==
    /\ pc[t] = "idle"
    /\ \E err \in {"e1", Nil} :
          IF err # Nil
          THEN /\ pc' = [pc EXCEPT ![t] = "return"]
               /\ local' = [local EXCEPT ![t].res = <<err>>]
          ELSE /\ pc' = [pc EXCEPT ![t] = "GatherError"]
               /\ UNCHANGED local
    /\ UNCHANGED <<store, config, tracking, Cond, mutex, hist>>

\* the read of an unlocked method, and its result
UnlockedRead(t) ==
    /\ pc[t] \in UnlockedPcs
    /\ local' = [local EXCEPT ![t].res = ReadOf(pc[t], local[t].arg)]
    /\ pc' = [pc EXCEPT ![t] = "return"]
    /\ UNCHANGED <<store, config, tracking, Cond, mutex, hist>>

\* a call of NFields starts and takes the mutex
NFieldsLock(t) ==
    /\ Lock(t, "NFields")
    /\ UNCHANGED <<store, config, tracking, Cond, local, hist>>

\* NFields from after a.Lock() to the deferred a.Unlock()
NFieldsCall(t) ==
    /\ pc[t] = "NFields"
    /\ local' = [local EXCEPT ![t].res = <<NFields>>]
    /\ mutex' = NoThread
    /\ pc' = [pc EXCEPT ![t] = "return"]
    /\ UNCHANGED <<store, config, tracking, Cond, hist>>

\* the caller has the result of its query
QueryReturn(t) ==
    /\ pc[t] = "return"
    /\ pc' = [pc EXCEPT ![t] = "idle"]
    /\ local' = [local EXCEPT ![t] = NoLocal]
    /\ UNCHANGED <<store, config, tracking, Cond, mutex, hist>>

\* mutant: ClearMetrics resets the counter and leaves the sequences
ClearMetricsBody_counterOnly(t) ==
    /\ nMetrics' = 0
    /\ UNCHANGED <<Metrics, accumulated>>
    /\ mutex' = NoThread
    /\ pc' = [pc EXCEPT ![t] = "idle"]

\* mutant: ClearMetrics broadcasts on the Cond, as the Add* calls do
ClearMetricsBody_broadcast(t) ==
    /\ nMetrics' = 0
    /\ Metrics' = <<>>
    /\ accumulated' = <<>>
    /\ mutex' = NoThread
    /\ pc' = [CondBroadcast(pc) EXCEPT ![t] = "idle"]

\* ClearMetrics, whole (Lock .. deferred Unlock)
ClearMetricsBody(t) ==
    /\ nMetrics' = 0
    /\ Metrics' = <<>>
    /\ accumulated' = <<>>
    /\ mutex' = NoThread
    /\ pc' = [pc EXCEPT ![t] = "idle"]

ClearLock(t) ==
    /\ hist.clears < MaxClears
    /\ Lock(t, "ClearMetrics")
    /\ hist' = [hist EXCEPT !.clears = @ + 1]
    /\ UNCHANGED <<store, config, tracking, Cond, local>>

ClearMetrics(t) ==
    /\ pc[t] = "ClearMetrics"
    /\ ClearMetricsBody(t)
    /\ UNCHANGED <<config, tracking, Errors, Cond, local, hist>>

\* the owner of the Accumulator assigns its exported field Discard
SetDiscard(b) ==
    /\ Discard # b
    /\ Discard' = b
    /\ UNCHANGED <<store, TimeFunc, heap, mav, pmu, tracking, Cond, mutex, pc,
                   local, hist>>

(* ------------------------------- errors ------------------------------- *)
\* mutant: no nil check, a nil error is recorded like any other
AddErrorCall_noNilCheck(t, err) ==
    /\ Lock(t, "AddError")
    /\ local' = [local EXCEPT ![t].err = err]
    /\ UNCHANGED <<store, Cond>>

\* AddError up to a.Lock(): a nil error goes to the return at once
AddErrorCall(t, err) ==
    IF err = Nil
    THEN /\ pc' = [pc EXCEPT ![t] = "AddError.nil"]
         /\ UNCHANGED <<store, Cond, mutex, local>>
    ELSE /\ Lock(t, "AddError")
         /\ local' = [local EXCEPT ![t].err = err]
         /\ UNCHANGED <<store, Cond>>

\* mutant: the error is put in front of the recorded ones
AddErrorBody_prepend(t) ==
    /\ Errors' = <<local[t].err>> \o Errors
    /\ pc' = [CondBroadcast(pc) EXCEPT ![t] = "idle"]
    /\ mutex' = NoThread

\* AddError from after a.Lock() to a.Unlock()
AddErrorBody(t) ==
    /\ Errors' = Append(Errors, local[t].err)
    /\ pc' = [CondBroadcast(pc) EXCEPT ![t] = "idle"]
    /\ mutex' = NoThread

\* a call of AddError starts, with an error of errs or the nil error
AddErrorStart(t, errs) ==
    /\ pc[t] = "idle"
    /\ \E err \in errs \cup {Nil} :
          /\ err # Nil => Len(Errors) < MaxErrors
          /\ AddErrorCall(t, err)
    /\ UNCHANGED <<config, tracking, hist>>

\* if err == nil { return }
AddErrorReturn(t) ==
    /\ pc[t] = "AddError.nil"
    /\ pc' = [pc EXCEPT ![t] = "idle"]
    /\ UNCHANGED <<store, config, tracking, Cond, mutex, local, hist>>

AddError(t) ==
    /\ pc[t] = "AddError"
    /\ AddErrorBody(t)
    /\ local' = [local EXCEPT ![t] = NoLocal]
    /\ UNCHANGED <<nMetrics, Metrics, accumulated, config, tracking, Cond, hist>>

(* ------------------------------- waiters ------------------------------ *)
\* Wait / WaitError up to the loop: a.Lock(), then the Cond is created
\* when it is nil
WaitEnter(t, op, n) ==
    /\ Lock(t, op)
    /\ Cond' = TRUE
    /\ local' = [local EXCEPT ![t].n = n]

\* for int(a.NMetrics()) < n { a.Cond.Wait() }: one evaluation of the loop
\* condition; Cond.Wait parks the thread and releases the mutex
WaitLoop(t) ==
    /\ pc[t] = "Wait.check"
    /\ IF NMetrics < local[t].n
       THEN /\ pc' = [pc EXCEPT ![t] = "Wait.sleep"]
            /\ mutex' = NoThread
       ELSE /\ pc' = [pc EXCEPT ![t] = "Wait.return"]
            /\ mutex' = mutex

\* mutant: WaitError tests the counter, as Wait does
WaitErrorLoop_counter(t) ==
    /\ pc[t] = "WaitError.check"
    /\ IF NMetrics < local[t].n
       THEN /\ pc' = [pc EXCEPT ![t] = "WaitError.sleep"]
            /\ mutex' = NoThread
       ELSE /\ pc' = [pc EXCEPT ![t] = "WaitError.return"]
            /\ mutex' = mutex

\* for len(a.Errors) < n { a.Cond.Wait() }
WaitErrorLoop(t) ==
    /\ pc[t] = "WaitError.check"
    /\ IF Len(Errors) < local[t].n
       THEN /\ pc' = [pc EXCEPT ![t] = "WaitError.sleep"]
            /\ mutex' = NoThread
       ELSE /\ pc' = [pc EXCEPT ![t] = "WaitError.return"]
            /\ mutex' = mutex

\* mutant: "if" in place of "for", a woken waiter returns without testing
\* the condition again
CondWaitResume_if(t) ==
    /\ pc[t] \in {"Wait.woken", "WaitError.woken"}
    /\ mutex = NoThread
    /\ mutex' = t
    /\ pc' = [pc EXCEPT ![t] = IF pc[t] = "Wait.woken" THEN "Wait.return"
                                ELSE "WaitError.return"]

\* Cond.Wait resumes after a Broadcast: it takes the mutex again and the
\* loop condition is evaluated again
CondWaitResume(t) ==
    /\ pc[t] \in {"Wait.woken", "WaitError.woken"}
    /\ mutex = NoThread
    /\ mutex' = t
    /\ pc' = [pc EXCEPT ![t] = IF pc[t] = "Wait.woken" THEN "Wait.check"
                                ELSE "WaitError.check"]

\* the (deferred) a.Unlock() that ends Wait / WaitError
WaitUnlock(t) ==
    /\ pc[t] \in {"Wait.return", "WaitError.return"}
    /\ mutex' = NoThread
    /\ pc' = [pc EXCEPT ![t] = "idle"]

WaitPcs == {"Wait.check", "Wait.sleep", "Wait.woken", "Wait.return",
            "WaitError.check", "WaitError.sleep", "WaitError.woken",
            "WaitError.return"}

WaitStart(t) ==
    /\ \E n \in 0..MaxWaitN : WaitEnter(t, "Wait.check", n)
    /\ UNCHANGED <<store, config, tracking, hist>>

WaitErrorStart(t) ==
    /\ \E n \in 0..MaxWaitN : WaitEnter(t, "WaitError.check", n)
    /\ UNCHANGED <<store, config, tracking, hist>>

Wait(t) ==
    /\ WaitLoop(t)
    /\ UNCHANGED <<store, config, tracking, Cond, local, hist>>

WaitError(t) ==
    /\ WaitErrorLoop(t)
    /\ UNCHANGED <<store, config, tracking, Cond, local, hist>>

WaitResume(t) ==
    /\ CondWaitResume(t)
    /\ UNCHANGED <<store, config, tracking, Cond, local, hist>>

WaitReturn(t) ==
    /\ WaitUnlock(t)
    /\ local' = [local EXCEPT ![t] = NoLocal]
    /\ UNCHANGED <<store, config, tracking, Cond, hist>>

(* ------------------------------ tracking ------------------------------ *)
\* the sizes of tracking groups, and the capacities passed to WithTracking
GroupSizes == {1, 2}
Capacities == {1, 2}

\* mutant: the channel and the list are made only when there is none
WithTrackingBody_once(maxTracked) ==
    IF deliverChan.made
    THEN UNCHANGED <<deliverChan, delivered>>
    ELSE /\ deliverChan' = [made |-> TRUE, cap |-> maxTracked, buf |-> <<>>]
         /\ delivered' = <<>>

\* mutant: make([]telegraf.DeliveryInfo, maxTracked) in place of
\* make([]telegraf.DeliveryInfo, 0, maxTracked): the list starts with
\* maxTracked zero values
WithTrackingBody_makeLen(maxTracked) ==
    /\ deliverChan' = [made |-> TRUE, cap |-> maxTracked, buf |-> <<>>]
    /\ delivered' = [i \in 1..maxTracked |-> NoInfo]

\* Accumulator.WithTracking, whole (trackingMutex held throughout)
WithTrackingBody(maxTracked) ==
    /\ deliverChan' = [made |-> TRUE, cap |-> maxTracked, buf |-> <<>>]
    /\ delivered' = <<>>

\* a call of WithTracking starts and takes the trackingMutex
WithTrackingLock(t) ==
    /\ pc[t] = "idle"
    /\ trackingMutex = NoThread
    /\ trackingMutex' = t
    /\ \E maxTracked \in Capacities :
          local' = [local EXCEPT ![t].n = maxTracked]
    /\ pc' = [pc EXCEPT ![t] = "WithTracking"]
    /\ UNCHANGED <<store, config, deliverChan, delivered, obligations, acked,
                   Cond, mutex, hist>>

WithTracking(t) ==
    /\ pc[t] = "WithTracking"
    /\ WithTrackingBody(local[t].n)
    /\ pc' = [pc EXCEPT ![t] = "idle"]
    /\ local' = [local EXCEPT ![t].n = 0]
    /\ trackingMutex' = NoThread
    /\ hist' = [hist EXCEPT !.discarded = @ + Len(deliverChan.buf)]
    /\ UNCHANGED <<store, config, obligations, acked, Cond, mutex>>

\* Accumulator.Delivered: the channel handed to the reader
Delivered == deliverChan

\* NDelivered: len(a.delivered); GetDeliveries: a fresh slice holding the
\* entries of a.delivered
NDelivered == Len(delivered)
GetDeliveries == [i \in 1..Len(delivered) |-> delivered[i]]

\* a call of NDelivered or GetDeliveries starts and takes the main mutex
DeliveriesLock(t) ==
    /\ \E op \in {"NDelivered", "GetDeliveries"} : Lock(t, op)
    /\ UNCHANGED <<store, config, tracking, Cond, local, hist>>

\* NDelivered and GetDeliveries from after a.Lock() to the deferred
\* a.Unlock(); the caller gets the result of the method it called
DeliveriesCall(t) ==
    /\ pc[t] \in {"NDelivered", "GetDeliveries"}
    /\ local' = [local EXCEPT ![t].res =
                    IF pc[t] = "NDelivered"
                    THEN <<"NDelivered", NDelivered>>
                    ELSE <<"GetDeliveries", GetDeliveries>>]
    /\ mutex' = NoThread
    /\ pc' = [pc EXCEPT ![t] = "return"]
    /\ UNCHANGED <<store, config, tracking, Cond, hist>>

\* package metric: the tracking data of a fresh obligation of n members;
\* its TrackingID is its place in obligations
NewObligation(n) == [members |-> n, remaining |-> n, accepted |-> 0]

\* package metric: metric m wrapped as member k of obligation id
Tracked(m, id, k) == [m EXCEPT !.track = <<id, k>>]

\* mutant: the id metric.WithTracking hands back is not kept, the call
\* returns the zero TrackingID
AddTrackingMetricCall_noId(t, m) ==
    LET id == Len(obligations) + 1
    IN /\ obligations' = Append(obligations, NewObligation(1))
       /\ Lock(t, "AddMetric")
       /\ local' = [local EXCEPT ![t].arg = Tracked(m, id, 1), ![t].id = 0]

\* AddTrackingMetric up to the a.Lock() of AddMetric: metric.WithTracking
\* wraps m with a fresh obligation of one member
AddTrackingMetricCall(t, m) ==
    LET id == Len(obligations) + 1
    IN /\ obligations' = Append(obligations, NewObligation(1))
       /\ Lock(t, "AddMetric")
       /\ local' = [local EXCEPT ![t].arg = Tracked(m, id, 1), ![t].id = id]

\* AddTrackingMetricGroup up to its loop: metric.WithGroupTracking wraps
\* the members of group with one fresh obligation
AddTrackingMetricGroupCall(t, group) ==
    LET id == Len(obligations) + 1
        db == [k \in 1..Len(group) |-> Tracked(group[k], id, k)]
    IN /\ pc[t] = "idle"
       /\ obligations' = Append(obligations, NewObligation(Len(group)))
       /\ pc' = [pc EXCEPT ![t] = "AddTrackingMetricGroup"]
       /\ local' = [local EXCEPT ![t].todo = db, ![t].id = id]

\* for _, m := range db { a.AddMetric(m) }: the next member, up to the
\* a.Lock() of AddMetric
AddTrackingMetricGroupLoop(t) ==
    /\ pc[t] = "AddTrackingMetricGroup"
    /\ Acquire(t, "AddMetric")
    /\ local' = [local EXCEPT ![t].arg = Head(local[t].todo),
                              ![t].todo = Tail(local[t].todo)]

\* the metrics handed to the tracking calls
TrackMetrics == {MetricOf(s) : s \in {x \in Submissions : x.measurement = "cpu"}}
TrackGroups ==
    UNION {[1..n -> TrackMetrics] : n \in GroupSizes}

AddTrackingMetric(t) ==
    /\ Len(obligations) < MaxObligations
    /\ \E m \in TrackMetrics : AddTrackingMetricCall(t, m)
    /\ UNCHANGED <<store, config, trackingMutex, deliverChan, delivered, acked,
                   Cond, hist>>

AddTrackingMetricGroup(t) ==
    /\ Len(obligations) < MaxObligations
    /\ \E group \in TrackGroups : AddTrackingMetricGroupCall(t, group)
    /\ UNCHANGED <<store, config, trackingMutex, deliverChan, delivered, acked,
                   Cond, mutex, hist>>

AddTrackingMetricGroupNext(t) ==
    /\ AddTrackingMetricGroupLoop(t)
    /\ UNCHANGED <<store, config, tracking, Cond, hist>>

\* the tracked members a consumer holds: stored, and not yet completed
Completed == {<<r[1], r[2]>> : r \in acked}
Pending ==
    {accumulated[i].track : i \in 1..Len(accumulated)}
        \ (Completed \cup {NoTrack})

\* mutant: every completion counts as accepted
OnMemberDelivered_countAll(t, id, accepted) ==
    LET o == obligations[id]
    IN /\ obligations' = [obligations EXCEPT
                             ![id] = [o EXCEPT !.remaining = @ - 1,
                                               !.accepted = @ + 1]]
       /\ IF o.remaining = 1
          THEN /\ pc' = [pc EXCEPT ![t] = "onDelivery"]
               /\ local' = [local EXCEPT ![t].info =
                               [id |-> id, delivered |-> TRUE,
                                accepted |-> o.accepted + 1]]
          ELSE UNCHANGED <<pc, local>>

\* package metric: one member of obligation id reports completion. The
\* remaining count goes down by one and the accepted flag is counted; when
\* no member remains, the terminal notification is built and handed to the
\* Accumulator's onDelivery
OnMemberDelivered(t, id, accepted) ==
    LET o == obligations[id]
        n == o.accepted + (IF accepted THEN 1 ELSE 0)
    IN /\ obligations' = [obligations EXCEPT
                             ![id] = [o EXCEPT !.remaining = @ - 1,
                                               !.accepted = n]]
       /\ IF o.remaining = 1
          THEN /\ pc' = [pc EXCEPT ![t] = "onDelivery"]
               /\ local' = [local EXCEPT ![t].info =
                               [id |-> id, delivered |-> TRUE,
                                accepted |-> n]]
          ELSE UNCHANGED <<pc, local>>

\* a consumer completes one of the members it holds
Report(t) ==
    /\ pc[t] = "idle"
    /\ \E m \in Pending, accepted \in BOOLEAN :
          /\ OnMemberDelivered(t, m[1], accepted)
          /\ acked' = acked \cup {<<m[1], m[2], accepted>>}
    /\ UNCHANGED <<store, config, trackingMutex, deliverChan, delivered, Cond,
                   mutex, hist>>

\* mutant: a full channel drops the notification, the caller goes on
onDelivery_drop(t, info) ==
    /\ pc' = [pc EXCEPT ![t] = "idle"]
    /\ IF deliverChan.made /\ Len(deliverChan.buf) < deliverChan.cap
       THEN deliverChan' = [deliverChan EXCEPT !.buf = Append(@, info)]
       ELSE UNCHANGED deliverChan

\* mutant: a plain send, which blocks while the channel is full
onDelivery_block(t, info) ==
    /\ deliverChan.made /\ Len(deliverChan.buf) < deliverChan.cap
    /\ deliverChan' = [deliverChan EXCEPT !.buf = Append(@, info)]
    /\ pc' = [pc EXCEPT ![t] = "idle"]

\* mutant: a nil channel is tolerated, the notification is dropped and the
\* call returns
onDelivery_nilDrop(t, info) ==
    IF ~deliverChan.made
    THEN /\ pc' = [pc EXCEPT ![t] = "idle"]
         /\ UNCHANGED deliverChan
    ELSE IF Len(deliverChan.buf) < deliverChan.cap
    THEN /\ deliverChan' = [deliverChan EXCEPT !.buf = Append(@, info)]
         /\ pc' = [pc EXCEPT ![t] = "idle"]
    ELSE /\ pc' = [pc EXCEPT ![t] = "panicked"]
         /\ UNCHANGED deliverChan

\* mutant: onDelivery takes the main mutex, as the Add* calls do
onDelivery_locked(t, info) ==
    /\ mutex = NoThread
    /\ IF deliverChan.made /\ Len(deliverChan.buf) < deliverChan.cap
       THEN /\ deliverChan' = [deliverChan EXCEPT !.buf = Append(@, info)]
            /\ pc' = [pc EXCEPT ![t] = "idle"]
       ELSE /\ pc' = [pc EXCEPT ![t] = "panicked"]
            /\ UNCHANGED deliverChan

\* onDelivery: select { case a.deliverChan <- info: default: panic(..) }.
\* The send is taken when the channel has room; a full channel, and a nil
\* one, leave the default case
onDelivery(t, info) ==
    IF deliverChan.made /\ Len(deliverChan.buf) < deliverChan.cap
    THEN /\ deliverChan' = [deliverChan EXCEPT !.buf = Append(@, info)]
         /\ pc' = [pc EXCEPT ![t] = "idle"]
    ELSE /\ pc' = [pc EXCEPT ![t] = "panicked"]
         /\ UNCHANGED deliverChan

\* what this step has put on the channel
Enqueued ==
    SubSeq(deliverChan'.buf, Len(deliverChan.buf) + 1, Len(deliverChan'.buf))

Deliver(t) ==
    /\ pc[t] = "onDelivery"
    /\ onDelivery(t, local[t].info)
    /\ hist' = [hist EXCEPT !.sent = @ \o Enqueued]
    /\ UNCHANGED <<store, config, trackingMutex, delivered, obligations, acked,
                   Cond, mutex, local>>

\* a reader of the channel that Delivered returns takes one notification
Receive(t) ==
    /\ pc[t] = "idle"
    /\ Delivered.made /\ Delivered.buf # <<>>
    /\ deliverChan' = [deliverChan EXCEPT !.buf = Tail(@)]
    /\ UNCHANGED <<store, config, trackingMutex, delivered, obligations, acked,
                   Cond, mutex, pc, local, hist>>

(* --------------------------- specifications --------------------------- *)
(* --------------------- Mavlink input (mavlink.go) --------------------- *)
\* connection events that arrive per behaviour
MaxEvents == 2

\* the events gomavlib delivers on connection.Events()
EventKinds == {"EventFrame", "EventChannelOpen", "EventChannelClose"}

\* the goroutine started by Start
MavReader == "t1"

\* a Mavlink that was not started: no connection, no goroutine. at is the
\* position of the goroutine, events the content of connection.Events(),
\* evt the event the loop holds, stopped whether Stop() has returned
NoMav ==
    [at |-> "none", terminated |-> FALSE, connection |-> "nil",
     events |-> <<>>, evt |-> "none", arrived |-> 0, stopped |-> FALSE]

\* the metric convertEventFrameToMetric builds, tagged with the source
MavMetric ==
    [name |-> "heartbeat", tags |-> {<<"source", "udp://:14540">>},
     fields |-> {<<"type", 1>>}, tm |-> 7, tp |-> Untyped, track |-> NoTrack]

\* what a read of s.terminated may yield: the field is a plain bool that
\* Stop writes and the goroutine reads with no synchronization, so a read
\* after the write may still yield the value before it
SeenTerminated == {mav.terminated, FALSE}

\* Start: gomavlib.NewNode fails and Start returns a StartupError, or the
\* connection is kept, terminated is reset and the goroutine is started
MavStart ==
    /\ mav.at = "none"
    /\ \/ mav' = [mav EXCEPT !.at = "failed"]
       \/ mav' = [mav EXCEPT !.terminated = FALSE, !.connection = "open",
                             !.at = "check"]
    /\ UNCHANGED <<store, Discard, TimeFunc, heap, pmu, tracking, Cond, mutex,
                   pc, local, hist>>

\* Stop: s.terminated = true
MavStop ==
    /\ mav.at \notin {"none", "failed"}
    /\ ~mav.stopped
    /\ mav' = [mav EXCEPT !.terminated = TRUE, !.stopped = TRUE]
    /\ UNCHANGED <<store, Discard, TimeFunc, heap, pmu, tracking, Cond, mutex,
                   pc, local, hist>>

\* the open connection delivers one more event
MavArrive ==
    /\ mav.connection = "open"
    /\ mav.arrived < MaxEvents
    /\ \E e \in EventKinds :
          mav' = [mav EXCEPT !.events = Append(@, e), !.arrived = @ + 1]
    /\ UNCHANGED <<store, Discard, TimeFunc, heap, pmu, tracking, Cond, mutex,
                   pc, local, hist>>

\* if s.terminated { return } before the loop
MavCheck ==
    /\ mav.at = "check"
    /\ \E seen \in SeenTerminated :
          mav' = [mav EXCEPT !.at = IF seen THEN "close" ELSE "range"]
    /\ UNCHANGED <<store, Discard, TimeFunc, heap, pmu, tracking, Cond, mutex,
                   pc, local, hist>>

\* for evt := range s.connection.Events(): the goroutine blocks until an
\* event is there
MavRange ==
    /\ mav.at = "range"
    /\ pc[MavReader] = "idle"
    /\ mav.events # <<>>
    /\ mav' = [mav EXCEPT !.evt = Head(mav.events), !.events = Tail(@),
                          !.at = "loop"]
    /\ UNCHANGED <<store, Discard, TimeFunc, heap, pmu, tracking, Cond, mutex,
                   pc, local, hist>>

\* if s.terminated { return }, then the switch on the event: a frame is
\* converted and submitted, an open or close is logged
MavLoop ==
    /\ mav.at = "loop"
    /\ \E seen \in SeenTerminated :
          mav' = [mav EXCEPT
                     !.at = IF seen THEN "close"
                            ELSE IF mav.evt = "EventFrame" THEN "add"
                            ELSE "range",
                     !.evt = IF ~seen /\ mav.evt = "EventFrame" THEN @
                             ELSE "none"]
    /\ UNCHANGED <<store, Discard, TimeFunc, heap, pmu, tracking, Cond, mutex,
                   pc, local, hist>>

\* acc.AddMetric(result), up to the a.Lock() of AddMetric; when AddMetric
\* has returned the loop goes on
MavAdd ==
    /\ mav.at = "add"
    /\ Lock(MavReader, "AddMetric")
    /\ local' = [local EXCEPT ![MavReader].arg = MavMetric]
    /\ mav' = [mav EXCEPT !.at = "range", !.evt = "none"]
    /\ UNCHANGED <<store, Discard, TimeFunc, heap, pmu, tracking, Cond, hist>>

\* defer s.connection.Close(): the goroutine returns
MavClose ==
    /\ mav.at = "close"
    /\ mav' = [mav EXCEPT !.connection = "closed", !.at = "done"]
    /\ UNCHANGED <<store, Discard, TimeFunc, heap, pmu, tracking, Cond, mutex,
                   pc, local, hist>>

(* ------------------- intel_pmu reader (reader.go) --------------------- *)
\* no call of readCoreEvents
\* at is the position of the call, next the index the loop is at, tasks
\* the state of the task of each event, done the tasks in the order they
\* returned, err the first error of the errgroup, ret what was returned
NoPmu ==
    [at |-> "none", events |-> <<>>, next |-> 1, tasks |-> <<>>,
     done |-> <<>>, metrics |-> <<>>, err |-> Nil, ret |-> <<>>]

\* active events of an entity per call
MaxActiveEvents == 3

\* *ia.ActiveEvent values: a nil pointer, an event whose PerfEvent is nil,
\* and events with a PerfEvent of that name
NoPerf == "noPerfEvent"
PmuEvents == {Nil, NoPerf, "e1", "e2"}

\* the entities a caller may pass: nil, or one with some active events
ActiveEventLists == UNION {[1..n -> PmuEvents] : n \in 0..MaxActiveEvents}
PmuEntities == {<<Nil>>} \cup {<<"entity", evs>> : evs \in ActiveEventLists}

\* the counter value the event reader yields for an event, when it does
ValueOf(e) == IF e = "e1" THEN 10 ELSE 20

\* the zero coreMetric, and the one a task builds from its event
ZeroCore == [name |-> "", values |-> 0]
CoreMetric(e) == [name |-> e, values |-> ValueOf(e)]

\* what readCoreEvents returns: metrics and error
PmuReturn(metrics, err) == [metrics |-> metrics, err |-> err]

\* readCoreEvents up to its loop: the nil checks, then metrics is made
\* with one zero entry per active event
PmuCall ==
    /\ pmu.at = "none"
    /\ \E reader \in BOOLEAN, entity \in PmuEntities :
          IF ~reader
          THEN pmu' = [pmu EXCEPT !.at = "returned",
                                  !.ret = PmuReturn(<<>>, "reader is nil")]
          ELSE IF entity = <<Nil>>
          THEN pmu' = [pmu EXCEPT !.at = "returned",
                                  !.ret = PmuReturn(<<>>, "entity is nil")]
          ELSE pmu' = [pmu EXCEPT
                          !.at = "loop",
                          !.events = entity[2],
                          !.next = 1,
                          !.tasks = [i \in 1..Len(entity[2]) |-> "none"],
                          !.metrics = [i \in 1..Len(entity[2]) |-> ZeroCore]]
    /\ UNCHANGED <<store, Discard, TimeFunc, heap, mav, tracking, Cond, mutex,
                   pc, local, hist>>

\* one iteration of the loop over entity.activeEvents: a nil event ends
\* the call with an error at once, else errGroup.Go starts the task of the
\* event; after the last event the call goes on to errGroup.Wait()
PmuLoop ==
    /\ pmu.at = "loop"
    /\ LET id == pmu.next
       IN IF id > Len(pmu.events)
          THEN pmu' = [pmu EXCEPT !.at = "wait"]
          ELSE IF pmu.events[id] \in {Nil, NoPerf}
          THEN pmu' = [pmu EXCEPT !.at = "returned",
                                  !.ret = PmuReturn(<<>>, "event is nil")]
          ELSE pmu' = [pmu EXCEPT !.tasks[id] = "run", !.next = id + 1]
    /\ UNCHANGED <<store, Discard, TimeFunc, heap, mav, tracking, Cond, mutex,
                   pc, local, hist>>

\* mutant: the closure shares the loop variable id with the loop, the task
\* writes at the index the loop is at
PmuStore_loopVar(id, m) == [pmu.metrics EXCEPT ![pmu.next - 1] = m]

\* metrics[id] = newMetric
PmuStore(id, m) == [pmu.metrics EXCEPT ![id] = m]

\* the task of event id runs: readValue fails and the task returns the
\* error, of which the group keeps the first; or it yields the value and
\* the task stores its metric
PmuTask(id) ==
    /\ id \in 1..Len(pmu.tasks)
    /\ pmu.tasks[id] = "run"
    /\ \/ pmu' = [pmu EXCEPT !.tasks[id] = "failed",
                             !.done = Append(@, id),
                             !.err = IF @ = Nil THEN "failed to read" ELSE @]
       \/ pmu' = [pmu EXCEPT !.tasks[id] = "read",
                             !.done = Append(@, id),
                             !.metrics = PmuStore(id, CoreMetric(pmu.events[id]))]
    /\ UNCHANGED <<store, Discard, TimeFunc, heap, mav, tracking, Cond, mutex,
                   pc, local, hist>>

\* errGroup.Wait() returns when every task has returned, with the first
\* error; the call returns the error and no metrics, or the metrics
PmuWait ==
    /\ pmu.at = "wait"
    /\ \A id \in 1..Len(pmu.tasks) : pmu.tasks[id] \in {"failed", "read"}
    /\ pmu' = [pmu EXCEPT
                  !.at = "returned",
                  !.ret = IF pmu.err # Nil
                          THEN PmuReturn(<<>>, pmu.err)
                          ELSE PmuReturn(pmu.metrics, Nil)]
    /\ UNCHANGED <<store, Discard, TimeFunc, heap, mav, tracking, Cond, mutex,
                   pc, local, hist>>

NoHist ==
    [adds |-> 0, kept |-> FALSE, clears |-> 0, sent |-> <<>>,
     returned |-> <<>>, discarded |-> 0]

Init ==
    /\ nMetrics = 0
    /\ Metrics = <<>>
    /\ accumulated = <<>>
    /\ Discard \in BOOLEAN
    /\ TimeFunc \in {NilFunc} \cup FixedClocks
    /\ Errors = <<>>
    /\ Cond = FALSE
    /\ mutex = NoThread
    /\ trackingMutex = NoThread
    /\ deliverChan = NilChan
    /\ delivered = <<>>
    /\ obligations = <<>>
    /\ acked = {}
    /\ heap = [t \in Threads |-> NoMaps]
    /\ mav = NoMav
    /\ pmu = NoPmu
    /\ pc = [t \in Threads |-> "idle"]
    /\ local = [t \in Threads |-> NoLocal]
    /\ hist = NoHist

Producers == {"t1", "t2"}

\* Ingestion: producers submit measurements of every shape.
Next ==
    \/ \E t \in Producers : AddLock(t, AddPcs, Submissions, MaxAdds)
    \/ \E t \in Producers : AddFields(t)
    \/ \E t \in Producers : AddCounter(t)
    \/ \E t \in Producers : AddGauge(t)
    \/ \E t \in Producers : AddSummary(t)
    \/ \E t \in Producers : AddHistogram(t)
    \/ \E t \in Producers : AddMetric(t)
    \/ \E t \in Producers : ClearLock(t)
    \/ \E t \in Producers : ClearMetrics(t)
    \/ \E b \in BOOLEAN : SetDiscard(b)

Spec == Init /\ [][Next]_vars

\* Waiting: two waiters share the condition variable with one producer of
\* measurements and errors.
Waiters == {"t1", "t2"}
Feeder == "t3"
WaitSubmissions == {s \in Submissions : s.measurement = "cpu"}

WaitInit == Init /\ TimeFunc = NilFunc

WaitNext ==
    \/ \E t \in Waiters : WaitStart(t)
    \/ \E t \in Waiters : WaitErrorStart(t)
    \/ \E t \in Waiters : Wait(t)
    \/ \E t \in Waiters : WaitError(t)
    \/ \E t \in Waiters : WaitResume(t)
    \/ \E t \in Waiters : WaitReturn(t)
    \/ AddLock(Feeder, {"AddFields"}, WaitSubmissions, MaxWaitAdds)
    \/ AddFields(Feeder)
    \/ AddErrorStart(Feeder, {"e1"})
    \/ AddError(Feeder)
    \/ AddErrorReturn(Feeder)
    \/ ClearLock(Feeder)
    \/ ClearMetrics(Feeder)

WaitSpec == WaitInit /\ [][WaitNext]_vars

\* Every started call runs on: a thread that holds the mutex takes its
\* next step, and a woken waiter gets the mutex (sync.Mutex hands the
\* mutex to a goroutine that has waited, so no waiter starves).
WaitFair ==
    /\ \A t \in Waiters :
          /\ WF_vars(Wait(t))
          /\ WF_vars(WaitError(t))
          /\ SF_vars(WaitResume(t))
          /\ WF_vars(WaitReturn(t))
    /\ WF_vars(AddFields(Feeder))
    /\ WF_vars(AddError(Feeder))
    /\ WF_vars(AddErrorReturn(Feeder))
    /\ WF_vars(ClearMetrics(Feeder))

WaitLive == WaitSpec /\ WaitFair

\* Errors: two producers record errors, nil ones too, and submit
\* measurements.
ErrNext ==
    \/ \E t \in Producers : AddErrorStart(t, ErrValues)
    \/ \E t \in Producers : AddError(t)
    \/ \E t \in Producers : AddErrorReturn(t)
    \/ \E t \in Producers : AddLock(t, {"AddFields"}, WaitSubmissions, MaxAdds)
    \/ \E t \in Producers : AddFields(t)
    \/ \E t \in Producers : ClearLock(t)
    \/ \E t \in Producers : ClearMetrics(t)

ErrSpec == WaitInit /\ [][ErrNext]_vars

\* Snapshots: a reader takes snapshots while a writer submits and clears.
Writer == "t1"
Reader == "t2"

SnapNext ==
    \/ AddLock(Writer, {"AddCounter", "AddMetric"}, Submissions, MaxAdds)
    \/ AddCounter(Writer)
    \/ AddMetric(Writer)
    \/ ClearLock(Writer)
    \/ ClearMetrics(Writer)
    \/ GetTelegrafMetricsLock(Reader)
    \/ GetTelegrafMetricsCall(Reader)

\* an Accumulator as built by default: Discard unset, TimeFunc nil
StoreInit == WaitInit /\ Discard = FALSE

SnapSpec == StoreInit /\ [][SnapNext]_vars

\* Queries: a reader looks stored metrics and errors up while a writer
\* submits, records errors and clears.
ReadNext ==
    \/ AddLock(Writer, {"AddFields", "AddMetric"}, Submissions, MaxAdds)
    \/ AddFields(Writer)
    \/ AddMetric(Writer)
    \/ AddErrorStart(Writer, {"e1"})
    \/ AddError(Writer)
    \/ AddErrorReturn(Writer)
    \/ ClearLock(Writer)
    \/ ClearMetrics(Writer)
    \/ LookupCall(Reader)
    \/ FirstErrorCall(Reader)
    \/ GatherErrorCall(Reader)
    \/ UnlockedRead(Reader)
    \/ NFieldsLock(Reader)
    \/ NFieldsCall(Reader)
    \/ QueryReturn(Reader)

ReadSpec == StoreInit /\ [][ReadNext]_vars

\* Caller maps: a caller submits the maps it owns and changes them between
\* its calls.
CopyNext ==
    \/ AddLock(Writer, {"AddGauge"}, {OwnSubmission(Writer)}, MaxAdds)
    \/ AddGauge(Writer)
    \/ MutateMaps(Writer)

CopySpec == StoreInit /\ [][CopyNext]_vars

\* Tracking: one input submits tracked metrics and groups, two consumers
\* complete the members and read the notifications.
Input == "t1"
Consumers == {"t2", "t3"}

TrackNext ==
    \/ WithTrackingLock(Input)
    \/ WithTracking(Input)
    \/ AddTrackingMetric(Input)
    \/ AddTrackingMetricGroup(Input)
    \/ AddTrackingMetricGroupNext(Input)
    \/ AddMetric(Input)
    \/ \E t \in Consumers : Report(t)
    \/ \E t \in Consumers : Deliver(t)
    \/ \E t \in Consumers : Receive(t)

TrackSpec == WaitInit /\ [][TrackNext]_vars

\* Resolution beside the main mutex: a consumer resolves the obligations
\* of an input while a third thread takes snapshots and waits.
Resolver == "t2"
Locker == "t3"

ResolveNext ==
    \/ WithTrackingLock(Input)
    \/ WithTracking(Input)
    \/ AddTrackingMetric(Input)
    \/ AddMetric(Input)
    \/ Report(Resolver)
    \/ Deliver(Resolver)
    \/ Receive(Resolver)
    \/ GetTelegrafMetricsLock(Locker)
    \/ GetTelegrafMetricsCall(Locker)
    \/ WaitStart(Locker)
    \/ Wait(Locker)
    \/ WaitResume(Locker)
    \/ WaitReturn(Locker)

ResolveSpec == WaitInit /\ [][ResolveNext]_vars

\* Deliveries: an input enables tracking again and again and submits
\* tracked metrics, a consumer resolves them, a third thread reads the
\* list of deliveries.
DeliveriesNext ==
    \/ WithTrackingLock(Input)
    \/ WithTracking(Input)
    \/ AddTrackingMetric(Input)
    \/ AddMetric(Input)
    \/ Report(Resolver)
    \/ Deliver(Resolver)
    \/ Receive(Resolver)
    \/ DeliveriesLock(Locker)
    \/ DeliveriesCall(Locker)
    \/ QueryReturn(Locker)

DeliveriesSpec == WaitInit /\ [][DeliveriesNext]_vars

\* Dropped members: an input submits tracked metrics and groups, with and
\* without fields, with Discard set or not; one consumer completes the
\* members the Accumulator holds.
DropNext ==
    \/ WithTrackingLock(Input)
    \/ WithTracking(Input)
    \/ AddTrackingMetric(Input)
    \/ AddTrackingMetricGroup(Input)
    \/ AddTrackingMetricGroupNext(Input)
    \/ AddMetric(Input)
    \/ Report(Resolver)
    \/ Deliver(Resolver)

DropSpec == WaitInit /\ [][DropNext]_vars

\* Mavlink: the plugin is started, events arrive, the goroutine submits
\* frames to the Accumulator, and the agent stops the plugin.
MavNext ==
    \/ MavStart
    \/ MavArrive
    \/ MavCheck
    \/ MavRange
    \/ MavLoop
    \/ MavAdd
    \/ AddMetric(MavReader)
    \/ MavClose
    \/ MavStop

MavSpec == StoreInit /\ [][MavNext]_vars

\* intel_pmu: one call of readCoreEvents, the tasks it starts running
\* in any order.
PmuNext ==
    \/ PmuCall
    \/ PmuLoop
    \/ \E id \in 1..MaxActiveEvents : PmuTask(id)
    \/ PmuWait

PmuSpec == StoreInit /\ [][PmuNext]_vars

(* ------------------------------- claims ------------------------------- *)
\* thread t completes a call of the Add* family in this step
AddStep(t) == pc[t] \in AddPcs /\ pc'[t] \notin AddPcs

\* the kind each Add* variant stores
KindOf(op) ==
    CASE op = "AddFields" -> Untyped
      [] op = "AddCounter" -> Counter
      [] op = "AddGauge" -> Gauge
      [] op = "AddSummary" -> Summary
      [] op = "AddHistogram" -> Histogram

\* entry e of a snapshot is the submission a made through op
Matches(op, a, e) ==
    IF op = "AddMetric" THEN e = a
    ELSE /\ e.name = a.measurement
         /\ e.tags = a.tags
         /\ e.fields = a.fields
         /\ e.tp = KindOf(op)
         /\ Len(a.timestamp) > 0 => e.tm = a.timestamp[1]

\* this step appends to the snapshot exactly one entry, the submission of t
StoresOne(t) ==
    LET before == GetTelegrafMetrics
        after == GetTelegrafMetrics'
    IN /\ Len(after) = Len(before) + 1
       /\ SubSeq(after, 1, Len(before)) = before
       /\ Matches(pc[t], local[t].arg, after[Len(after)])
       /\ Len(Metrics') = Len(Metrics) + 1

\* the notifications put on a channel of the Accumulator so far for id
Sent(id) == Cardinality({i \in 1..Len(hist.sent) : hist.sent[i].id = id})

\* the notifications for id that are on the channel now
Queued(id) ==
    Cardinality({i \in 1..Len(deliverChan.buf) : deliverChan.buf[i].id = id})

\* the members of id that have reported completion, and those of them
\* that reported accepted = true
Reported(id) == Cardinality({r \in acked : r[1] = id})
AcceptedCalls(id) == Cardinality({r \in acked : r[1] = id /\ r[3]})

\* a thread is inside onDelivery with the notification of id; a thread
\* has panicked there
Resolving(id) ==
    \E t \in Threads : pc[t] = "onDelivery" /\ local[t].info.id = id
Faulted(id) ==
    \E t \in Threads : pc[t] = "panicked" /\ local[t].info.id = id

\* the channel has no room: it holds as many notifications as its capacity
ChanFull == deliverChan.made /\ Len(deliverChan.buf) >= deliverChan.cap

\* C1 as claimed: the notification of an obligation is put on the channel
\* exactly once, and only after all its members have reported.
C1_NotifiedExactlyOnceAfterAll ==
    \A id \in 1..Len(obligations) :
        /\ Sent(id) <= 1
        /\ Reported(id) < obligations[id].members
           => (Sent(id) = 0 /\ Queued(id) = 0)
        /\ (Reported(id) = obligations[id].members /\ ~Resolving(id))
           => Sent(id) = 1

\* C1, amended: the notification of an obligation is put on the channel at
\* most once and only after all its members have reported; once they all
\* have and onDelivery is over, it was put there exactly once, unless
\* onDelivery panicked (channel full, or nil), and then never.
C1_NotifiedOnceAfterAllUnlessPanic ==
    \A id \in 1..Len(obligations) :
        /\ Sent(id) <= 1
        /\ Reported(id) < obligations[id].members
           => (Sent(id) = 0 /\ Queued(id) = 0 /\ ~Resolving(id)
               /\ ~Faulted(id))
        /\ (Reported(id) = obligations[id].members /\ ~Resolving(id))
           => IF Faulted(id) THEN Sent(id) = 0 ELSE Sent(id) = 1

\* a group of two was completed and notified, while the other obligation,
\* a group too, has one member reported and no notification
C1_Witness ==
    /\ Len(obligations) = 2
    /\ obligations[1].members = 2 /\ obligations[2].members = 2
    /\ \E id \in {1, 2} :
          /\ Reported(id) = 2 /\ Sent(id) = 1
          /\ Reported(3 - id) = 1 /\ Sent(3 - id) = 0

\* C2: every notification put on the channel reports delivered = true and
\* carries as accepted-count the number of completions of its obligation
\* made with accepted = true, all members having reported; when all have
\* and onDelivery has returned, there is exactly one such notification.
C2_AcceptedCountOfNotification ==
    /\ \A i \in 1..Len(hist.sent) :
          LET info == hist.sent[i]
          IN /\ info.delivered
             /\ info.accepted = AcceptedCalls(info.id)
             /\ Reported(info.id) = obligations[info.id].members
    /\ \A id \in 1..Len(obligations) :
          (/\ Reported(id) = obligations[id].members
           /\ ~Resolving(id) /\ ~Faulted(id))
          => \E i \in 1..Len(hist.sent) :
                hist.sent[i] = [id |-> id, delivered |-> TRUE,
                                accepted |-> AcceptedCalls(id)]

\* WithTracking(2), a group of two, one member accepted and one not: the
\* one notification {1, true, 1} is on the channel
C2_Witness ==
    /\ deliverChan.cap = 2
    /\ Len(obligations) = 1 /\ obligations[1].members = 2
    /\ \E k \in {1, 2} : acked = {<<1, k, TRUE>>, <<1, 3 - k, FALSE>>}
    /\ deliverChan.buf = <<[id |-> 1, delivered |-> TRUE, accepted |-> 1]>>
    /\ hist.sent = deliverChan.buf

\* C3: onDelivery on a full channel panics: the step leaves the channel as
\* it is and the thread panicked (the notification is not dropped with the
\* thread going on), and a thread inside onDelivery can always take its
\* step (the send never blocks).
C3_FullChannelPanics ==
    /\ [][\A t \in Threads :
            (pc[t] = "onDelivery" /\ ChanFull /\ pc'[t] # "onDelivery")
            => /\ pc'[t] = "panicked"
               /\ deliverChan' = deliverChan
               /\ hist'.sent = hist.sent]_vars
    /\ [](\A t \in Consumers : pc[t] = "onDelivery" => ENABLED Deliver(t))

\* a thread panicked and the channel is full
C3_Witness ==
    \E t \in Threads :
        /\ pc[t] = "panicked"
        /\ ChanFull
        /\ Sent(local[t].info.id) = 0

\* C4: Wait(n) returns only in a state where the counter is at least n.
C4_WaitReturnsAtCount ==
    \A t \in Threads : pc[t] = "Wait.return" => NMetrics >= local[t].n

C4_Witness ==
    \E t \in Threads :
        pc[t] = "Wait.return" /\ local[t].n = MaxWaitN /\ hist.clears > 0

\* the condition a waiter inside Wait / WaitError waits for
WaitPred(t) ==
    IF pc[t] \in {"Wait.check", "Wait.sleep", "Wait.woken", "Wait.return"}
    THEN NMetrics >= local[t].n
    ELSE Len(Errors) >= local[t].n

\* C5: no missed wakeup. A caller inside Wait or WaitError does not stay
\* there for ever while its condition holds: it returns, or the condition
\* is false again (ClearMetrics).
C5_NoMissedWakeup ==
    \A t \in Waiters :
        (pc[t] \in WaitPcs) ~> (pc[t] \notin WaitPcs \/ ~WaitPred(t))

\* waiters of both kinds were parked on the one Cond and woken, and the
\* condition of each holds
C5_Witness ==
    /\ pc["t1"] = "Wait.woken" /\ NMetrics >= local["t1"].n
    /\ pc["t2"] = "WaitError.woken" /\ Len(Errors) >= local["t2"].n

\* C6: WaitError(n) returns only in a state with at least n errors.
C6_WaitErrorReturnsAtCount ==
    \A t \in Threads :
        pc[t] = "WaitError.return" => Len(Errors) >= local[t].n

C6_Witness ==
    \E t \in Threads :
        /\ pc[t] = "WaitError.return"
        /\ local[t].n = MaxWaitN
        /\ NMetrics < local[t].n

\* C7: a call of the Add* family with an empty field map adds one to the
\* counter and leaves the stored measurements and the snapshot unchanged.
C7_EmptyFieldsCountedNotStored ==
    [][\A t \in Threads :
          (AddStep(t) /\ local[t].arg.fields = NoMap)
          => /\ NMetrics' = NMetrics + 1
             /\ Metrics' = Metrics
             /\ accumulated' = accumulated
             /\ GetTelegrafMetrics' = GetTelegrafMetrics]_vars

\* one call ran with Discard unset, the counter moved and nothing is stored
C7_Witness ==
    /\ hist.adds = 1 /\ hist.kept /\ hist.clears = 0
    /\ NMetrics = 1
    /\ GetTelegrafMetrics = <<>>

\* C8 as claimed: every submission with fields appears in the snapshot,
\* once, when its call completes.
C8_EveryFieldedSubmissionStored ==
    [][\A t \in Threads :
          (AddStep(t) /\ local[t].arg.fields # NoMap) => StoresOne(t)]_vars

\* C8, amended: while Discard is unset, every submission with fields
\* appears in the snapshot when its call completes: one entry more, at the
\* end, equal to the submission in name, tags, fields, kind and timestamp.
C8_FieldedSubmissionStoredUnlessDiscard ==
    [][\A t \in Threads :
          (AddStep(t) /\ local[t].arg.fields # NoMap /\ ~Discard)
          => StoresOne(t)]_vars

\* cpu{} time_idle=42, Counter, at time 7 was submitted and is the snapshot
C8_Witness ==
    GetTelegrafMetrics =
        <<[name |-> "cpu", tags |-> NoMap,
           fields |-> {<<"time_idle", 42>>}, tm |-> 7, tp |-> Counter,
           track |-> NoTrack]>>

C10_CounterNeverDecreases == [][NMetrics' >= NMetrics]_vars

\* C10, amended: the counter never decreases except in ClearMetrics, which
\* sets it to 0.
C10_CounterDecreasesOnlyInClear ==
    [][\/ NMetrics' >= NMetrics
       \/ \E t \in Threads :
             pc[t] = "ClearMetrics" /\ pc'[t] = "idle" /\ NMetrics' = 0]_vars

\* calls were counted, ClearMetrics ran, and calls were counted again
C10_Witness ==
    /\ hist.clears > 0
    /\ NMetrics >= 1
    /\ hist.adds > NMetrics
    /\ mutex = NoThread

\* C11: no increment of the counter is lost. Across every step in which no
\* ClearMetrics runs, the counter grows by the number of calls of the Add*
\* family completed in the step, whichever producer made them and whether
\* the measurement was stored, dropped or discarded; so K completed calls
\* leave it exactly K higher.
C11_NoLostIncrement ==
    [][(\A t \in Threads : pc[t] # "ClearMetrics")
       => NMetrics' - NMetrics = hist'.adds - hist.adds]_vars

\* MaxAdds calls completed, one stored and the others dropped or discarded
\* (Discard was unset for some call and is set now), and the counter is the
\* number of calls
C11_Witness ==
    /\ hist.clears = 0
    /\ hist.adds = MaxAdds /\ NMetrics = MaxAdds
    /\ Len(Metrics) = 1
    /\ hist.kept /\ Discard

\* thread t makes a tracking call in this step: it submits a tracked metric
\* or group (a fresh obligation appears), or its onDelivery runs
TrackingCall(t) ==
    \/ /\ pc[t] = "idle" /\ pc'[t] # "idle"
       /\ Len(obligations') > Len(obligations)
    \/ pc[t] = "onDelivery" /\ pc'[t] # "onDelivery"

\* C12 as claimed: a tracking call made before WithTracking fails at that
\* call.
C12_TrackingBeforeEnableFails ==
    [][\A t \in Threads :
          (TrackingCall(t) /\ ~deliverChan.made) => pc'[t] = "panicked"]_vars

\* C12, amended: before WithTracking, the resolution of an obligation
\* fails at that call (onDelivery panics on the nil channel, without
\* blocking and without going on), while AddTrackingMetric and
\* AddTrackingMetricGroup do not fail: they create the obligation and go on
\* to submit.
C12_ResolutionBeforeEnableFails ==
    /\ [][\A t \in Threads :
            (TrackingCall(t) /\ ~deliverChan.made)
            => IF pc[t] = "onDelivery"
               THEN /\ pc'[t] = "panicked"
                    /\ deliverChan' = deliverChan
                    /\ hist'.sent = hist.sent
               ELSE pc'[t] \in {"AddMetric", "AddTrackingMetricGroup"}]_vars
    /\ [](\A t \in Consumers :
            (pc[t] = "onDelivery" /\ ~deliverChan.made)
            => ENABLED Deliver(t))

\* WithTracking was never called: a tracked metric was submitted and
\* stored all the same, and its resolution panicked
C12_Witness ==
    /\ ~deliverChan.made
    /\ Len(accumulated) > 0
    /\ \E t \in Threads :
          pc[t] = "panicked" /\ local[t].info.id \in 1..Len(obligations)

\* the ids the tracking calls have returned so far
ReturnedIds == {hist.returned[i].id : i \in 1..Len(hist.returned)}

\* the tracking ids the stored metrics carry
StoredIds ==
    {accumulated[i].track[1] :
        i \in {j \in 1..Len(accumulated) : accumulated[j].track # NoTrack}}

\* C13: the ids returned by distinct tracking calls are pairwise different;
\* every notification carries the id its creating call returned, that of an
\* obligation with as many members as the call wrapped; and an obligation
\* made by AddTrackingMetric (one member) is resolved by the one completion
\* of its member.
C13_FreshIdsCarriedByNotifications ==
    /\ \A i, j \in 1..Len(hist.returned) :
          i # j => hist.returned[i].id # hist.returned[j].id
    /\ \A i \in 1..Len(hist.sent) :
          \E j \in 1..Len(hist.returned) :
             /\ hist.returned[j].id = hist.sent[i].id
             /\ hist.returned[j].members = Reported(hist.sent[i].id)
    /\ \A j \in 1..Len(hist.returned) :
          LET r == hist.returned[j]
          IN (r.members = 1 /\ Reported(r.id) = 1)
             => (Sent(r.id) = 1 \/ Resolving(r.id) \/ Faulted(r.id))

\* two tracking calls returned, a single metric and a group; both were
\* resolved and each notification carries the id of its call
C13_Witness ==
    /\ Len(hist.returned) = 2
    /\ {hist.returned[1].members, hist.returned[2].members} = {1, 2}
    /\ Len(hist.sent) = 2
    /\ {hist.sent[1].id, hist.sent[2].id} = ReturnedIds
    /\ StoredIds = ReturnedIds

\* thread t is inside a call AddError(nil)
InNilCall(t) == pc[t] \in {"AddError", "AddError.nil"} /\ local[t].err = Nil

\* C14: AddError(nil) is a no-op. No step of such a call, its start and
\* its return included, changes the errors, the stored measurements or the
\* counter, and none moves another thread: a caller inside Wait or
\* WaitError is neither woken nor returns by it.
C14_AddErrorNilIsNoOp ==
    [][\A t \in Threads :
          ((InNilCall(t) \/ InNilCall(t)') /\ pc'[t] # pc[t])
          => /\ Errors' = Errors
             /\ Metrics' = Metrics
             /\ accumulated' = accumulated
             /\ NMetrics' = NMetrics
             /\ \A u \in Threads \ {t} : pc'[u] = pc[u]]_vars

\* AddError(nil) is running while one caller is parked in WaitError and
\* the other in Wait, with no error and no measurement recorded
C14_Witness ==
    /\ pc[Feeder] = "AddError.nil"
    /\ \E u, v \in Waiters :
          pc[u] = "WaitError.sleep" /\ pc[v] = "Wait.sleep"
    /\ Errors = <<>> /\ NMetrics = 0

\* C15: a call of AddError with a non-nil error appends exactly that error
\* at the end of Errors and returns (the caller does not panic), leaving the
\* counter and the stored measurements as they are; Errors changes in no
\* other step, so recorded errors keep their places and the first one
\* stays first.
C15_AddErrorAppends ==
    [][/\ \A t \in Threads :
            (pc[t] = "AddError" /\ pc'[t] # "AddError" /\ local[t].err # Nil)
            => /\ Errors' = Append(Errors, local[t].err)
               /\ pc'[t] = "idle"
               /\ NMetrics' = NMetrics
               /\ Metrics' = Metrics
               /\ accumulated' = accumulated
       /\ Errors' # Errors
          => /\ \E t \in Threads : pc[t] = "AddError" /\ pc'[t] # "AddError"
             /\ SubSeq(Errors', 1, Len(Errors)) = Errors
             /\ Errors # <<>> => FirstError' = FirstError]_vars

\* two different errors were recorded, in the order of the calls, with
\* measurements counted and stored
C15_Witness ==
    /\ Errors = <<"e2", "e1">>
    /\ FirstError = "e2"
    /\ NMetrics > 0 /\ Len(Metrics) > 0
    /\ \A t \in Threads : pc[t] = "idle"

\* sequence s is the beginning of sequence r
IsPrefix(s, r) == Len(s) <= Len(r) /\ SubSeq(r, 1, Len(s)) = s

\* C16: the stored measurements keep the order of submission. A call of
\* the Add* family stores while it holds the mutex; the entries stored
\* before stay where they are, in Metrics, accumulated and the snapshot,
\* and what the call stores is one entry at the end, its submission. So the
\* stored order is the order in which the calls held the mutex, and a call
\* that started after another returned is stored after it.
C16_StoredInSubmissionOrder ==
    [][\A t \in Threads :
          AddStep(t)
          => /\ mutex = t
             /\ IsPrefix(Metrics, Metrics')
             /\ IsPrefix(accumulated, accumulated')
             /\ IsPrefix(GetTelegrafMetrics, GetTelegrafMetrics')
             /\ Len(accumulated') <= Len(accumulated) + 1
             /\ Len(Metrics') = Len(accumulated')
             /\ Len(accumulated') = Len(accumulated) + 1
                => Matches(pc[t], local[t].arg,
                           accumulated'[Len(accumulated')])]_vars

\* a Gauge mem submission was stored, then a Counter cpu submission
C16_Witness ==
    /\ Len(GetTelegrafMetrics) = 2
    /\ GetTelegrafMetrics[1].name = "mem" /\ GetTelegrafMetrics[1].tp = Gauge
    /\ GetTelegrafMetrics[2].name = "cpu" /\ GetTelegrafMetrics[2].tp = Counter
    /\ hist.clears = 0

\* C17: GetTelegrafMetrics returns a copy. The slice a call returns holds
\* the entries of accumulated as they are at the moment of the call, which
\* holds the mutex; and the slice a caller holds keeps its length and its
\* entries through every step of the other threads, calls of the Add*
\* family and ClearMetrics included.
C17_SnapshotIsCopy ==
    [][\A t \in Threads :
          /\ (pc[t] = "GetTelegrafMetrics" /\ pc'[t] # "GetTelegrafMetrics")
             => /\ mutex = t
                /\ local'[t].metrics = accumulated
                /\ accumulated' = accumulated
          /\ pc'[t] = pc[t] => local'[t].metrics = local[t].metrics]_vars

\* the reader holds a snapshot of two entries; since then ClearMetrics ran
\* and one more measurement was stored
C17_Witness ==
    /\ Len(local[Reader].metrics) = 2
    /\ hist.clears > 0
    /\ Len(accumulated) = 1
    /\ accumulated[1] # local[Reader].metrics[1]
    /\ pc[Reader] = "idle"

\* stored measurement i as a reader of a.Metrics sees it
MetricView(i) ==
    [Measurement |-> Metrics[i].Measurement, Tags |-> TagsOf(Metrics[i]),
     Fields |-> FieldsOf(Metrics[i]), Time |-> Metrics[i].Time,
     Type |-> Metrics[i].Type]

\* the measurement stored last
LastStored == MetricView(Len(Metrics))

\* C18: tags and fields are copied at ingestion. A stored measurement has
\* the tags and fields its caller's maps held at the call, and a step in
\* which a caller changes the maps it owns changes no stored measurement,
\* neither in a.Metrics nor in the snapshot.
C18_CallerMapsCopied ==
    [][/\ heap' # heap
          => /\ Len(Metrics') = Len(Metrics)
             /\ \A i \in 1..Len(Metrics) : MetricView(i)' = MetricView(i)
             /\ GetTelegrafMetrics' = GetTelegrafMetrics
       /\ \A t \in Threads :
            (AddStep(t) /\ Len(Metrics') = Len(Metrics) + 1)
            => /\ LastStored'.Tags = local[t].arg.tags
               /\ LastStored'.Fields = local[t].arg.fields]_vars

\* a measurement stored with host=a and time_idle=42 is unchanged while its
\* caller's maps now hold host=b and two other fields
C18_Witness ==
    /\ Len(Metrics) = 1
    /\ MetricView(1).Tags = {<<"host", "a">>}
    /\ MetricView(1).Fields = {<<"time_idle", 42>>}
    /\ heap[Writer].tags = {<<"host", "b">>}
    /\ heap[Writer].fields = {<<"time_idle", 43>>, <<"used", 1>>}
    /\ pc[Writer] = "idle"

\* C19: a measurement stored by a call of AddFields, AddCounter, AddGauge,
\* AddSummary or AddHistogram carries the caller's timestamp when the call
\* passes one, else a time TimeFunc returns (the wall clock when TimeFunc
\* is nil); with a fixed clock that is the fixed time.
C19_TimestampFromCallerOrClock ==
    [][\A t \in Threads :
          (/\ AddStep(t) /\ pc[t] # "AddMetric"
           /\ Len(accumulated') = Len(accumulated) + 1)
          => LET e == accumulated'[Len(accumulated')]
                 a == local[t].arg
             IN /\ Metrics'[Len(Metrics')].Time = e.tm
                /\ IF Len(a.timestamp) > 0 THEN e.tm = a.timestamp[1]
                   ELSE IF TimeFunc # NilFunc THEN e.tm \in TimeFunc
                   ELSE e.tm \in WallTimes]_vars

\* with a fixed clock, one measurement was stored at its caller's time and
\* one, submitted without timestamp, at the time of the clock
C19_Witness ==
    /\ TimeFunc \in FixedClocks
    /\ Len(accumulated) = 2
    /\ accumulated[1].tm = 7
    /\ accumulated[2].tm \in TimeFunc
    /\ hist.adds = 2

\* C20: WithTracking called again makes tracking anew. When the call
\* completes, the channel Delivered returns is a new one of the capacity
\* asked for, with nothing on it, whatever the one before held, and
\* delivered is empty; the stored measurements, the errors and the counter
\* are as they were.
C20_WithTrackingReinitializes ==
    [][\A t \in Threads :
          (pc[t] = "WithTracking" /\ pc'[t] # "WithTracking")
          => /\ Delivered' =
                  [made |-> TRUE, cap |-> local[t].n, buf |-> <<>>]
             /\ delivered' = <<>>
             /\ Metrics' = Metrics
             /\ accumulated' = accumulated
             /\ Errors' = Errors
             /\ NMetrics' = NMetrics]_vars

\* WithTracking was called again with another capacity while a
\* notification was on the channel: the new channel is empty, and a
\* tracked metric is still stored and counted
C20_Witness ==
    /\ hist.discarded = 1
    /\ Len(hist.sent) = 1
    /\ Delivered = [made |-> TRUE, cap |-> 2, buf |-> <<>>]
    /\ Len(accumulated) = 1 /\ NMetrics = 1
    /\ \A t \in Threads : pc[t] = "idle"

(* C21 *)
\* t reads the stored metrics (the error sequence) in a method that took
\* no lock; w is inside the critical section of a call that writes them
ReadsMetrics(t) == pc[t] \in LookupPcs \cup {"NFields"}
ReadsErrors(t) == pc[t] \in {"FirstError", "GatherError"}
WritesMetrics(w) == mutex = w /\ pc[w] \in AddPcs \cup {"ClearMetrics"}
WritesErrors(w) == mutex = w /\ pc[w] = "AddError"

\* C21: every operation that reads the stored metrics or the errors holds
\* the main mutex for its whole read, so that no read runs while an Add* or
\* AddError call is inside its critical section on the same sequence.
C21_NoReadDuringWrite ==
    \A t \in Threads :
       /\ ReadsMetrics(t) => ~\E w \in Threads \ {t} : WritesMetrics(w)
       /\ ReadsErrors(t) => ~\E w \in Threads \ {t} : WritesErrors(w)

(* C22 *)
\* the main mutex is held inside Add*, a snapshot or a waiter's check
HeldInside ==
    \E u \in Threads :
       /\ mutex = u
       /\ pc[u] \in AddPcs \cup {"GetTelegrafMetrics", "Wait.check",
                                 "Wait.return"}

\* C22: resolving an obligation is independent of ingestion. A thread in
\* onDelivery does not hold the main mutex and its step neither waits for
\* the mutex nor changes its holder: the step can be taken (it enqueues or
\* faults) whoever holds the mutex. A resolution in progress blocks no
\* call on the mutex: the holder can finish, and a free mutex can be taken.
C22_ResolutionIgnoresMainLock ==
    [][\A t \in Threads :
          pc[t] = "onDelivery" =>
             /\ mutex # t
             /\ ENABLED Deliver(t)
             /\ pc'[t] # "onDelivery" =>
                   /\ pc'[t] \in {"idle", "panicked"}
                   /\ mutex' = mutex
             /\ pc[Input] = "AddMetric" => ENABLED AddMetric(Input)
             /\ pc[Locker] = "GetTelegrafMetrics" =>
                   ENABLED GetTelegrafMetricsCall(Locker)
             /\ mutex = NoThread /\ pc[Locker] = "idle" =>
                   ENABLED GetTelegrafMetricsLock(Locker)]_vars

\* a resolution completes while the main mutex is held by another call
C22_Witness ==
    /\ HeldInside
    /\ pc[Resolver] = "onDelivery"
    /\ ENABLED Deliver(Resolver)

(* C23 *)
\* w is inside WithTracking, with the trackingMutex and before its writes
\* of a.deliverChan and a.delivered
Reinitializing(w) == trackingMutex = w /\ pc[w] = "WithTracking"
\* r is at the read of a.deliverChan in onDelivery; r is at the read of
\* a.delivered in NDelivered or GetDeliveries
ReadsChan(r) == pc[r] = "onDelivery"
ReadsDelivered(r) == pc[r] \in {"NDelivered", "GetDeliveries"}

\* C23: (re)initialization of the tracking state is synchronized with
\* every other access to it. A lock taken by both sides keeps them apart:
\* while a thread is inside WithTracking, about to write the channel and
\* the list of deliveries, no other thread is at the read of the channel
\* in onDelivery, nor at the read of the list in NDelivered or
\* GetDeliveries.
C23_ReinitSynchronized ==
    \A w \in Threads : \A r \in Threads \ {w} :
       Reinitializing(w) => ~ReadsChan(r) /\ ~ReadsDelivered(r)

(* C24 *)
\* the tracked members the Accumulator holds
StoredTracks ==
    {accumulated[i].track : i \in 1..Len(accumulated)} \ {NoTrack}

\* the members of a returned tracking call that the Accumulator dropped:
\* those it does not hold (nothing is cleared here)
DroppedMembers(r) == {k \in 1..r.members : <<r.id, k>> \notin StoredTracks}

\* the metrics wrapped by the tracking calls that have returned
RECURSIVE MembersOf(_)
MembersOf(rs) == IF rs = <<>> THEN 0 ELSE Head(rs).members + MembersOf(Tail(rs))

\* the AddMetric step of t is handed a tracked metric and drops it
DropsTracked(t) ==
    /\ pc[t] = "AddMetric" /\ pc'[t] # "AddMetric"
    /\ local[t].arg.track # NoTrack
    /\ Discard \/ local[t].arg.fields = NoMap

\* an obligation with a dropped member has no notification, and every
\* returned call is counted
NoReportOfDropped ==
    /\ nMetrics >= MembersOf(hist.returned)
    /\ \A j \in 1..Len(hist.returned) :
          LET r == hist.returned[j]
          IN /\ r.id \in 1..Len(obligations)
             /\ DroppedMembers(r) # {} =>
                   /\ Sent(r.id) = 0 /\ Queued(r.id) = 0
                   /\ ~Resolving(r.id) /\ ~Faulted(r.id)
                   /\ obligations[r.id].remaining
                         >= Cardinality(DroppedMembers(r))

\* C24: a tracked measurement dropped at ingestion (Discard set, or no
\* fields) is dropped without signalling its obligation. The step that
\* drops it counts it, stores nothing and reports no completion; the call
\* still returns the id of its obligation; and an obligation with a
\* dropped member, single or group, is never notified: no notification of
\* it is sent, queued or being delivered, and its dropped members stay
\* outstanding.
C24_DroppedMemberNeverReports ==
    [][/\ NoReportOfDropped'
       /\ \A t \in Threads :
             DropsTracked(t) =>
                /\ nMetrics' = nMetrics + 1
                /\ accumulated' = accumulated /\ Metrics' = Metrics
                /\ tracking' = tracking
                /\ pc'[t] \in {"idle", "AddTrackingMetricGroup"}
                /\ Returns(t) =>
                      /\ Len(hist'.returned) = Len(hist.returned) + 1
                      /\ hist'.returned[Len(hist'.returned)].id
                            = local[t].arg.track[1]
       /\ \A j \in 1..Len(hist.returned) :
             DroppedMembers(hist.returned[j])'
                = DroppedMembers(hist.returned[j])]_vars

\* a single tracked metric and a group with one dropped member have
\* returned their ids, every stored member has reported, and no
\* notification was produced
C24_Witness ==
    /\ Len(hist.returned) = 2
    /\ \E i, j \in 1..2 :
          /\ hist.returned[i].members = 1
          /\ DroppedMembers(hist.returned[i]) = {1}
          /\ hist.returned[j].members = 2
          /\ Cardinality(DroppedMembers(hist.returned[j])) = 1
    /\ Pending = {}
    /\ Cardinality(acked) = 1
    /\ hist.sent = <<>>
    /\ nMetrics = 3
    /\ \A t \in Threads : pc[t] = "idle"

ResultOf(t, op) == pc[t] = "return" /\ local[t].res[1] = op

\* C26: no operation of the Accumulator appends to the list of resolved
\* notifications. After every sequence of WithTracking calls, tracked
\* submissions and resolutions the list is empty, NDelivered returns 0 and
\* GetDeliveries returns an empty list; what was resolved is found on the
\* channel only: every notification went onto a channel, where it stays
\* until it is received or the channel is replaced.
C26_DeliveredStaysEmpty ==
    /\ delivered = <<>>
    /\ NDelivered = 0
    /\ GetDeliveries = <<>>
    /\ \A t \in Threads :
          /\ ResultOf(t, "NDelivered") => local[t].res[2] = 0
          /\ ResultOf(t, "GetDeliveries") => local[t].res[2] = <<>>
    /\ \A id \in 1..Len(obligations) :
          /\ obligations[id].remaining = 0 =>
                Sent(id) = 1 \/ Resolving(id) \/ Faulted(id)
          /\ Queued(id) <= Sent(id)

\* an obligation was resolved and its notification is on the channel; a
\* caller of NDelivered holds 0
C26_Witness ==
    /\ Len(hist.sent) = 1
    /\ Queued(hist.sent[1].id) = 1
    /\ ResultOf(Locker, "NDelivered")
    /\ local[Locker].res[2] = 0

(* C27 *)
\* the step of t is the critical section of ClearMetrics
ClearStep(t) == pc[t] = "ClearMetrics" /\ pc'[t] # "ClearMetrics"

\* C27: ClearMetrics, under the main mutex, sets the counter to 0 and
\* empties both stored sequences; it leaves the errors, Discard and the
\* tracking state as they were and wakes no waiter: every other thread
\* stays where it is. A caller blocked in Wait(n) returns only when the
\* counter is n again, and after ClearMetrics the counter grows from 0 by
\* one per completed Add* call only, so only after n further calls.
C27_ClearResetsAndWakesNoOne ==
    [][/\ \A t \in Threads :
             ClearStep(t) =>
                /\ mutex = t /\ mutex' = NoThread
                /\ NMetrics' = 0
                /\ Metrics' = <<>> /\ accumulated' = <<>>
                /\ Errors' = Errors /\ Discard' = Discard
                /\ tracking' = tracking /\ Cond' = Cond
                /\ \A u \in Threads \ {t} : pc'[u] = pc[u]
       /\ (\A t \in Threads : ~ClearStep(t)) =>
             \/ NMetrics' = NMetrics
             \/ NMetrics' = NMetrics + 1 /\ \E t \in Threads : AddStep(t)
       /\ \A t \in Threads :
             pc'[t] = "Wait.return" => NMetrics' >= local'[t].n]_vars

\* a caller of Wait(2) was woken by the one Add* call made; ClearMetrics
\* ran before it took the mutex again, the counter is 0 and the caller is
\* still inside Wait
C27_Witness ==
    \E t \in Threads :
        /\ pc[t] = "Wait.woken" /\ local[t].n = 2
        /\ hist.adds = 1 /\ hist.clears = 1
        /\ Errors = <<>>
        /\ NMetrics = 0
        /\ \A u \in Threads \ {t} : pc[u] = "idle"

(* C28 *)
\* this step is the goroutine's call of acc.AddMetric
MavSubmits == mav.at = "add" /\ mav'.at # "add"

\* C28: once Stop() has returned, the goroutine started by Start()
\* submits no further measurement to the accumulator, whatever the
\* interleaving of Stop() with the goroutine's check of the terminated
\* flag and with the arrival of events.
C28_NoSubmissionAfterStop == [][mav.stopped => ~MavSubmits]_vars

(* C29 *)
\* the step is the task of event id
TaskStep(id) ==
    /\ id \in 1..Len(pmu.tasks)
    /\ pmu.tasks[id] = "run" /\ pmu'.tasks[id] # "run"

\* readCoreEvents has returned what all-or-nothing asks for: without
\* error, every task has returned, every read succeeded, and the metrics
\* are one per active event, the one at index i built from activeEvents[i];
\* with an error, no metrics
AllOrNothing ==
    pmu.at = "returned" =>
       IF pmu.ret.err = Nil
       THEN /\ \A i \in 1..Len(pmu.events) :
                  /\ pmu.events[i] \notin {Nil, NoPerf}
                  /\ pmu.tasks[i] = "read"
            /\ Len(pmu.done) = Len(pmu.events)
            /\ Len(pmu.ret.metrics) = Len(pmu.events)
            /\ \A i \in 1..Len(pmu.events) :
                  pmu.ret.metrics[i] = CoreMetric(pmu.events[i])
       ELSE pmu.ret.metrics = <<>>

\* a read has failed, or the loop has met an event that is nil
ReadFailed == \E i \in 1..Len(pmu.tasks) : pmu.tasks[i] = "failed"
MetNilEvent ==
    \E i \in 1..Len(pmu.events) :
       i <= pmu.next /\ pmu.events[i] \in {Nil, NoPerf}

\* C29: readCoreEvents reads the active events of an entity in concurrent
\* tasks and is all-or-nothing. When every read succeeds it returns, after
\* all tasks have returned, one metric per active event, the metric at
\* index i built from activeEvents[i] whatever the order in which the
\* tasks complete; each task writes its own index of metrics only. When a
\* read fails, or an event is nil, it returns an error and no metrics.
C29_ReadCoreEventsAllOrNothing ==
    [][/\ AllOrNothing'
       /\ (pmu'.at = "returned" /\ (ReadFailed' \/ MetNilEvent')) =>
             pmu'.ret.err # Nil
       /\ \A id \in 1..MaxActiveEvents :
             TaskStep(id) =>
                \A j \in 1..Len(pmu.metrics) :
                   j # id => pmu'.metrics[j] = pmu.metrics[j]]_vars

\* three events were read by tasks that completed in the reverse of the
\* order they were started in, and the call returned their metrics in the
\* order of the events
C29_Witness ==
    /\ pmu.at = "returned"
    /\ pmu.events = <<"e1", "e2", "e1">>
    /\ pmu.done = <<3, 2, 1>>
    /\ pmu.ret.err = Nil
    /\ Len(pmu.ret.metrics) = 3
    /\ pmu.ret.metrics[2].name = "e2"

====
